---------------------------- MODULE Spec2Model ----------------------------
(*************************************************************************)
(* Model of core/network-libp2p/src/behaviour.rs: the composite          *)
(* `Behaviour` (static peer table, event queue, event translation) and   *)
(* the `DiscoveryBehaviour` (address resolution, random Kademlia query   *)
(* scheduler).                                                           *)
(*                                                                       *)
(* PeerIds are strings, Multiaddrs are positive integers, Instants and   *)
(* Durations are whole seconds.                                          *)
(*************************************************************************)
EXTENDS Integers, Sequences, FiniteSets, TLC

VARIABLES
    known_addresses,        \* argument of Behaviour::new (static_peers)
    mdns,                   \* Toggle<Mdns>: TRUE when the mdns behaviour exists
    user_defined,           \* discovery.user_defined : Vec<(PeerId, Multiaddr)>
    kad_addrs,              \* addresses held by discovery.kademlia, per peer
    find_node_calls,        \* number of kademlia.find_node calls issued
    last_find_node,         \* Instant of the latest find_node call, -1 if none
    discovered_nodes,       \* peers given to custom_protocols.add_discovered_node
    sessions,               \* custom_protocols: the session with each peer
    events,                 \* Behaviour.events : Vec<BehaviourOut>
    next_kad_random_query,  \* deadline of the Delay
    duration_to_next_kad,   \* seconds
    now,                    \* Instant::now()
    timer_error,            \* TRUE while the tokio timer reports an error
    recording,              \* TRUE when the two histories below are kept
    pushed,                 \* history: every event pushed to `events`
    returned,               \* history: every event returned by Behaviour::poll
    op,                     \* the last operation and its arguments
    ret,                    \* what the last operation returned
    warns                   \* warn! lines logged by the last operation

vars == <<known_addresses, mdns, user_defined, kad_addrs, find_node_calls,
          last_find_node,
          discovered_nodes, sessions, events, next_kad_random_query,
          duration_to_next_kad, now, timer_error, recording, pushed,
          returned, op, ret, warns>>

-----------------------------------------------------------------------------
(* Bounds of the model *)

MaxStatic == 2
MaxTable == 3

(* Input domains *)

Peers == {"P1", "P2"}
StaticAddrs == {1, 2}
DhtAddrs == {2, 3}

-----------------------------------------------------------------------------
(* Helpers *)

Range(s) == {s[i] : i \in 1..Len(s)}

SeqsUpTo(S, n) == UNION {[1..k -> S] : k \in 0..n}

Min(a, b) == IF a <= b THEN a ELSE b

NoOp == [name |-> "new", peer |-> "none", arg |-> <<>>]

\* what an operation returns: `()`, and the value held before any operation
Unit == [tag |-> "Unit"]
Nothing == [tag |-> "Nothing"]

Op(name, peer, arg) == [name |-> name, peer |-> peer, arg |-> arg]

-----------------------------------------------------------------------------
(* Kademlia collaborator (libp2p::kad), as used through its interface *)

\* Kademlia::new: no address known for any peer
kademlia_new == [p \in Peers |-> <<>>]

\* `addrs` appended to `held` in order, skipping each address already held
AppendFresh(held, addrs) ==
    LET fresh(i) == /\ addrs[i] \notin Range(held)
                    /\ \A j \in 1..(i - 1) : addrs[j] # addrs[i]
        kept == SelectSeq([i \in 1..Len(addrs) |-> i], fresh)
    IN  held \o [k \in 1..Len(kept) |-> addrs[kept[k]]]

\* kademlia.add_connected_address(peer_id, addr)
kademlia_add_connected_address(kad, peer_id, addr) ==
    [kad EXCEPT ![peer_id] = AppendFresh(@, <<addr>>)]

\* kademlia.addresses_of_peer(peer_id)
kademlia_addresses_of_peer(kad, peer_id) == kad[peer_id]

\* the `for (peer_id, addr) in &known_addresses` loop of Behaviour::new
RECURSIVE seed_kademlia(_, _)
seed_kademlia(kad, list) ==
    IF list = <<>>
    THEN kad
    ELSE seed_kademlia(
            kademlia_add_connected_address(kad, Head(list)[1], Head(list)[2]),
            Tail(list))

-----------------------------------------------------------------------------
(* Behaviour::new *)

Behaviour_new(static_peers, enable_mdns, mdns_ok) ==
    /\ known_addresses = static_peers
    /\ user_defined = static_peers
    /\ kad_addrs = seed_kademlia(kademlia_new, static_peers)
    /\ find_node_calls = 0
    /\ last_find_node = -1
    /\ next_kad_random_query = 0
    /\ duration_to_next_kad = 1
    /\ now = 0
    /\ timer_error = FALSE
    /\ mdns = (enable_mdns /\ mdns_ok)
    /\ discovered_nodes = {}
    /\ sessions = [p \in Peers |-> "closed"]
    /\ events = <<>>
    /\ pushed = <<>>
    /\ returned = <<>>
    /\ op = NoOp
    /\ ret = Nothing
    /\ warns = IF enable_mdns /\ ~mdns_ok THEN {"mdns_init_failed"} ELSE {}

-----------------------------------------------------------------------------
(* Behaviour::add_known_address *)

\* variant: push without looking at the table
user_defined_after_add_always(table, peer_id, addr) ==
    Append(table, <<peer_id, addr>>)

user_defined_after_add(table, peer_id, addr) ==
    IF \A i \in 1..Len(table) : table[i][1] # peer_id /\ table[i][2] # addr
    THEN Append(table, <<peer_id, addr>>)
    ELSE table

add_known_address(peer_id, addr) ==
    /\ Len(user_defined) < MaxTable
    /\ user_defined' = user_defined_after_add(user_defined, peer_id, addr)
    /\ op' = Op("add_known_address", peer_id, <<addr>>)
    /\ ret' = Unit
    /\ warns' = {}
    /\ UNCHANGED <<known_addresses, last_find_node, sessions, mdns, kad_addrs,
                   find_node_calls, discovered_nodes, events,
                   next_kad_random_query, duration_to_next_kad, now,
                   timer_error, recording, pushed, returned>>

-----------------------------------------------------------------------------
(* DiscoveryBehaviour::addresses_of_peer *)

\* the filter_map over user_defined
RECURSIVE static_addresses_of(_, _)
static_addresses_of(table, peer_id) ==
    IF table = <<>>
    THEN <<>>
    ELSE IF Head(table)[1] = peer_id
         THEN <<Head(table)[2]>> \o static_addresses_of(Tail(table), peer_id)
         ELSE static_addresses_of(Tail(table), peer_id)

\* variant: the kademlia addresses are not appended
addresses_of_peer_list_static_only(table, kad, peer_id) ==
    static_addresses_of(table, peer_id)

\* variant: kademlia addresses first
addresses_of_peer_list_kad_first(table, kad, peer_id) ==
    kademlia_addresses_of_peer(kad, peer_id) \o static_addresses_of(table, peer_id)

addresses_of_peer_list(table, kad, peer_id) ==
    static_addresses_of(table, peer_id) \o kademlia_addresses_of_peer(kad, peer_id)

addresses_of_peer(peer_id) ==
    /\ ret' = addresses_of_peer_list(user_defined, kad_addrs, peer_id)
    /\ op' = Op("addresses_of_peer", peer_id, <<>>)
    /\ warns' = {}
    /\ UNCHANGED <<known_addresses, last_find_node, sessions, mdns,
                   user_defined, kad_addrs, find_node_calls, discovered_nodes,
                   events, next_kad_random_query, duration_to_next_kad, now,
                   timer_error, recording, pushed, returned>>

\* the DHT learns an address for a peer on its own (routing traffic)
KadLearn(peer_id, addr) ==
    /\ addr \notin Range(kad_addrs[peer_id])
    /\ kad_addrs' = kademlia_add_connected_address(kad_addrs, peer_id, addr)
    /\ op' = Op("kad_learn", peer_id, <<addr>>)
    /\ ret' = Unit
    /\ warns' = {}
    /\ UNCHANGED <<known_addresses, last_find_node, sessions, mdns,
                   user_defined, find_node_calls, discovered_nodes, events,
                   next_kad_random_query, duration_to_next_kad, now,
                   timer_error, recording, pushed, returned>>

-----------------------------------------------------------------------------
(* Specification of the static peer table and address resolution *)

InitAddr ==
    \E static_peers \in SeqsUpTo(Peers \X StaticAddrs, MaxStatic) :
    \E enable_mdns \in BOOLEAN :
        /\ Behaviour_new(static_peers, enable_mdns, TRUE)
        /\ recording = FALSE

AddKnownAddress == \E p \in Peers, a \in StaticAddrs : add_known_address(p, a)

AddressesOfPeer == \E p \in Peers : addresses_of_peer(p)

DhtLearns == \E p \in Peers, a \in DhtAddrs : KadLearn(p, a)

NextAddr == AddKnownAddress \/ AddressesOfPeer \/ DhtLearns

SpecAddr == InitAddr /\ [][NextAddr]_vars

-----------------------------------------------------------------------------
(* Properties of the static peer table and of address resolution *)

NoDuplicateEntries(table) ==
    \A i, j \in 1..Len(table) : table[i] = table[j] => i = j

\* the (peer, address) pair passed to the last add_known_address call
AddedPair(o) == <<o.peer, o.arg[1]>>

\* the addresses of the table entries matching peer_id, in table order
MatchingAddrs(table, peer_id) ==
    LET sel == SelectSeq(table, LAMBDA e : e[1] = peer_id)
    IN  [i \in 1..Len(sel) |-> sel[i][2]]

\* the state is the one Behaviour::new built from known_addresses
AsConstructed ==
    /\ user_defined = known_addresses
    /\ kad_addrs = seed_kademlia(kademlia_new, known_addresses)

\* C1 (as stated): after add_known_address calls on a Behaviour built from any
\* static_peers list, the table never holds two entries identical in both
\* peer and address.
C1_NeverTwoIdenticalEntries ==
    op.name = "add_known_address" => NoDuplicateEntries(user_defined)

\* C1 (amended): when the static_peers list given to Behaviour::new holds no
\* two identical entries, the table never holds two entries identical in both
\* peer and address, whatever add_known_address calls are made.
C1_NoDuplicatesFromDistinctStaticPeers ==
    NoDuplicateEntries(known_addresses) => NoDuplicateEntries(user_defined)

\* C1 witness: an exact duplicate of a constructed entry has been offered to
\* a table built from a duplicate-free list.
C1_Witness ==
    /\ op.name = "add_known_address"
    /\ NoDuplicateEntries(known_addresses)
    /\ AddedPair(op) \in Range(known_addresses)
    /\ Len(user_defined) >= 2

\* C2: add_known_address(p, a) appends (p, a) whenever no existing entry
\* equals (p, a) in both fields (same peer with another address, or same
\* address with another peer, still appends); only an exact duplicate is
\* skipped.
C2_AppendsUnlessExactDuplicate ==
    [][op'.name = "add_known_address" =>
        IF AddedPair(op') \in Range(user_defined)
        THEN user_defined' = user_defined
        ELSE user_defined' = Append(user_defined, AddedPair(op'))]_vars

\* C4: addresses_of_peer(peer) returns the addresses of the matching table
\* entries in table order followed by the addresses the DHT holds for peer;
\* the addresses returned are the union of the two sources; the result is
\* empty iff neither source has an address; neither table changes.
C4_StaticThenDhtAddresses ==
    [][op'.name = "addresses_of_peer" =>
        LET static == MatchingAddrs(user_defined, op'.peer)
            dht    == kad_addrs[op'.peer]
        IN  /\ ret' = static \o dht
            /\ Range(ret') =
                 {e[2] : e \in {x \in Range(user_defined) : x[1] = op'.peer}}
                    \cup Range(dht)
            /\ (ret' = <<>>) <=>
                 /\ \A i \in 1..Len(user_defined) : user_defined[i][1] # op'.peer
                 /\ dht = <<>>
            /\ user_defined' = user_defined
            /\ kad_addrs' = kad_addrs]_vars

\* C4 witness: a resolution that drew on both sources, the DHT holding an
\* address the table does not.
C4_Witness ==
    /\ op.name = "addresses_of_peer"
    /\ Len(MatchingAddrs(user_defined, op.peer)) >= 2
    /\ 3 \in Range(kad_addrs[op.peer])
    /\ Len(ret) >= 4

\* C5 (as stated): right after construction with static_peers = [(P1, A1)]
\* and mdns disabled, addresses_of_peer(P1) returns [A1].
C5_ReturnsSingleAddress ==
    ( /\ op.name = "addresses_of_peer"
      /\ op.peer = "P1"
      /\ known_addresses = << <<"P1", 1>> >>
      /\ ~mdns
      /\ AsConstructed )
    => ret = <<1>>

\* C5 (amended): right after construction with static_peers = [(P1, A1)] and
\* mdns disabled, addresses_of_peer(P1) returns [A1, A1]: the table entry
\* followed by the copy the constructor seeded into the DHT.
C5_ReturnsStaticAndSeededAddress ==
    ( /\ op.name = "addresses_of_peer"
      /\ op.peer = "P1"
      /\ known_addresses = << <<"P1", 1>> >>
      /\ ~mdns
      /\ AsConstructed )
    => ret = <<1, 1>>

\* C5 witness: that resolution has happened.
C5_Witness ==
    /\ op.name = "addresses_of_peer"
    /\ op.peer = "P1"
    /\ known_addresses = << <<"P1", 1>> >>
    /\ ~mdns
    /\ AsConstructed
    /\ Len(ret) = 2

-----------------------------------------------------------------------------
(* Sub-protocol events and their translation (NetworkBehaviourEventProcess) *)

MaxQueue == 1
MaxEvents == 3

\* the `30` of inject_event(IdentifyEvent)
MaxListenAddrs == 30

\* crate::PROTOCOL_NAME, as path segments
PROTOCOL_NAME == <<"substrate">>

\* str::contains, on sequences of path segments
Contains(s, sub) ==
    \E i \in 0..(Len(s) - Len(sub)) : SubSeq(s, i + 1, i + Len(sub)) = sub

\* Vec::truncate
Truncate(s, n) == IF Len(s) > n THEN SubSeq(s, 1, n) ELSE s

\* custom_protocols.add_discovered_node(peer_id)
add_discovered_node(custom, peer_id) == custom \cup {peer_id}

\* the part of the Behaviour the event handlers read and write
Handled ==
    [kad |-> kad_addrs, custom |-> discovered_nodes, events |-> events,
     warns |-> {}]

\* variant: a closed session is always reported as closed cleanly
BehaviourOut_from_closed_ok(other) ==
    CASE other.tag = "CustomProtocolOpen" ->
           [tag |-> "CustomProtocolOpen", version |-> other.version,
            peer_id |-> other.peer_id, endpoint |-> other.endpoint]
      [] other.tag = "CustomProtocolClosed" ->
           [tag |-> "CustomProtocolClosed", peer_id |-> other.peer_id,
            endpoint |-> other.endpoint, result |-> "Ok"]
      [] other.tag = "CustomMessage" ->
           [tag |-> "CustomMessage", peer_id |-> other.peer_id,
            endpoint |-> other.endpoint, message |-> other.message]
      [] other.tag = "Clogged" ->
           [tag |-> "Clogged", peer_id |-> other.peer_id,
            messages |-> other.messages]

\* impl From<CustomProtoOut> for BehaviourOut
BehaviourOut_from(other) ==
    CASE other.tag = "CustomProtocolOpen" ->
           [tag |-> "CustomProtocolOpen", version |-> other.version,
            peer_id |-> other.peer_id, endpoint |-> other.endpoint]
      [] other.tag = "CustomProtocolClosed" ->
           [tag |-> "CustomProtocolClosed", peer_id |-> other.peer_id,
            endpoint |-> other.endpoint, result |-> other.result]
      [] other.tag = "CustomMessage" ->
           [tag |-> "CustomMessage", peer_id |-> other.peer_id,
            endpoint |-> other.endpoint, message |-> other.message]
      [] other.tag = "Clogged" ->
           [tag |-> "Clogged", peer_id |-> other.peer_id,
            messages |-> other.messages]

\* inject_event(CustomProtoOut)
process_CustomProtoOut(st, event) ==
    [st EXCEPT !.events = Append(@, BehaviourOut_from(event))]

\* the `for addr in &info.listen_addrs` loop: add_connected_address is called
\* for each address in order
add_listen_addrs(kad, peer_id, addrs) ==
    [kad EXCEPT ![peer_id] = AppendFresh(@, addrs)]

\* variant: the listen addresses are kept whole
retained_listen_addrs_whole(listen_addrs) == listen_addrs

\* `if info.listen_addrs.len() > 30 { info.listen_addrs.truncate(30) }`
retained_listen_addrs(listen_addrs) ==
    IF Len(listen_addrs) > MaxListenAddrs
    THEN Truncate(listen_addrs, MaxListenAddrs)
    ELSE listen_addrs

\* the IdentifyEvent::Identified arm
process_Identified(st, peer_id, info0) ==
    LET w1   == IF ~Contains(info0.protocol_version, PROTOCOL_NAME)
                THEN {"non_substrate_node"} ELSE {}
        w2   == IF Len(info0.listen_addrs) > MaxListenAddrs
                THEN {"more_than_30_addresses"} ELSE {}
        info == [info0 EXCEPT !.listen_addrs = retained_listen_addrs(@)]
    IN  [kad    |-> add_listen_addrs(st.kad, peer_id, info.listen_addrs),
         custom |-> add_discovered_node(st.custom, peer_id),
         events |-> Append(st.events,
                           [tag |-> "Identified", peer_id |-> peer_id,
                            info |-> info]),
         warns  |-> st.warns \cup w1 \cup w2]

\* variant: an Identified event of a node of another network is dropped
process_IdentifyEvent_drop_foreign(st, event) ==
    CASE event.tag = "Identified" ->
           IF Contains(event.info.protocol_version, PROTOCOL_NAME)
           THEN process_Identified(st, event.peer_id, event.info)
           ELSE [st EXCEPT !.warns = @ \cup {"non_substrate_node"}]
      [] event.tag = "Error" -> st
      [] event.tag = "SendBack" -> st

\* inject_event(IdentifyEvent)
process_IdentifyEvent(st, event) ==
    CASE event.tag = "Identified" ->
           process_Identified(st, event.peer_id, event.info)
      [] event.tag = "Error" -> st
      [] event.tag = "SendBack" -> st

\* variant: KBucketAdded is ignored like Discovered
process_KademliaOut_ignore_added(st, out) ==
    CASE out.tag = "Discovered" -> st
      [] out.tag = "KBucketAdded" -> st
      [] out.tag = "FindNodeResult" ->
           IF out.closer_peers = <<>>
           THEN [st EXCEPT !.warns = @ \cup {"empty_random_query"}]
           ELSE st
      [] out.tag = "GetProvidersResult" -> st

\* inject_event(KademliaOut)
process_KademliaOut(st, out) ==
    CASE out.tag = "Discovered" -> st
      [] out.tag = "KBucketAdded" ->
           [st EXCEPT !.custom = add_discovered_node(@, out.peer_id)]
      [] out.tag = "FindNodeResult" ->
           IF out.closer_peers = <<>>
           THEN [st EXCEPT !.warns = @ \cup {"empty_random_query"}]
           ELSE st
      [] out.tag = "GetProvidersResult" -> st

\* inject_event(PingEvent)
process_PingEvent(st, event) ==
    [st EXCEPT !.events =
        Append(@, [tag |-> "PingSuccess", peer_id |-> event.peer,
                   ping_time |-> event.time])]

\* the `for (peer_id, _) in list` loop of the MdnsEvent::Discovered arm
RECURSIVE add_discovered_list(_, _)
add_discovered_list(custom, list) ==
    IF list = <<>>
    THEN custom
    ELSE add_discovered_list(add_discovered_node(custom, Head(list)[1]),
                             Tail(list))

\* variant: peers whose mdns record expired are forgotten again
process_MdnsEvent_forget_expired(st, event) ==
    CASE event.tag = "Discovered" ->
           [st EXCEPT !.custom = add_discovered_list(@, event.list)]
      [] event.tag = "Expired" ->
           [st EXCEPT !.custom =
               @ \ {event.list[i][1] : i \in 1..Len(event.list)}]

\* inject_event(MdnsEvent)
process_MdnsEvent(st, event) ==
    CASE event.tag = "Discovered" ->
           [st EXCEPT !.custom = add_discovered_list(@, event.list)]
      [] event.tag = "Expired" -> st

\* the derived dispatch: the impl is chosen by the event's type
process_event(st, ev) ==
    CASE ev.src = "CustomProtoOut" -> process_CustomProtoOut(st, ev)
      [] ev.src = "IdentifyEvent"  -> process_IdentifyEvent(st, ev)
      [] ev.src = "KademliaOut"    -> process_KademliaOut(st, ev)
      [] ev.src = "PingEvent"      -> process_PingEvent(st, ev)
      [] ev.src = "MdnsEvent"      -> process_MdnsEvent(st, ev)

\* the events pushed by a handler run from queue `before` to queue `after`
NewEvents(before, after) == SubSeq(after, Len(before) + 1, Len(after))

\* the body of inject_event: what one call does to the Behaviour
handle_event(ev) ==
    LET st == process_event(Handled, ev)
    IN  /\ IF recording
           THEN Len(pushed) + Len(NewEvents(events, st.events)) <= MaxEvents
           ELSE Len(st.events) <= MaxQueue
        /\ kad_addrs' = st.kad
        /\ discovered_nodes' = st.custom
        /\ events' = st.events
        /\ warns' = st.warns
        /\ pushed' = IF recording
                     THEN pushed \o NewEvents(events, st.events)
                     ELSE pushed
        /\ op' = Op("inject_event", "none", <<ev>>)
        /\ ret' = Unit
        /\ UNCHANGED <<known_addresses, last_find_node, mdns, user_defined,
                       find_node_calls, next_kad_random_query,
                       duration_to_next_kad, now, timer_error, recording,
                       returned>>

\* one call of inject_event, the sub-protocols' own state left aside
inject_event(ev) == handle_event(ev) /\ UNCHANGED sessions

-----------------------------------------------------------------------------
(* Behaviour::poll *)

NotReady == [tag |-> "NotReady"]

Ready(action) == [tag |-> "Ready", action |-> action]

GenerateEvent(event) == [tag |-> "GenerateEvent", event |-> event]

\* variant: the newest event is returned first
Behaviour_poll_result_newest(queue) ==
    IF queue # <<>>
    THEN [ret |-> Ready(GenerateEvent(queue[Len(queue)])),
          events |-> SubSeq(queue, 1, Len(queue) - 1)]
    ELSE [ret |-> NotReady, events |-> queue]

Behaviour_poll_result(queue) ==
    IF queue # <<>>
    THEN [ret |-> Ready(GenerateEvent(Head(queue))), events |-> Tail(queue)]
    ELSE [ret |-> NotReady, events |-> queue]

Behaviour_poll ==
    LET r == Behaviour_poll_result(events)
    IN  /\ events' = r.events
        /\ ret' = r.ret
        /\ returned' = IF recording /\ r.ret.tag = "Ready"
                       THEN Append(returned, r.ret.action.event)
                       ELSE returned
        /\ op' = Op("poll", "none", <<>>)
        /\ warns' = {}
        /\ UNCHANGED <<known_addresses, last_find_node, sessions, mdns,
                       user_defined, kad_addrs, find_node_calls,
                       discovered_nodes, next_kad_random_query,
                       duration_to_next_kad, now, timer_error, recording,
                       pushed>>

-----------------------------------------------------------------------------
(* Input events *)

Ascending(n) == [i \in 1..n |-> i]

ProtocolVersions == {<<"substrate", "1.0">>, <<"ipfs", "0.1.0">>}

IdentifyInfo(protocol_version, n) ==
    [protocol_version |-> protocol_version, agent_version |-> "agent",
     listen_addrs |-> Ascending(n)]

IdentifyEvents ==
    [src : {"IdentifyEvent"}, tag : {"Identified"}, peer_id : {"P2"},
     info : {IdentifyInfo(v, n) : v \in ProtocolVersions, n \in {2, 45}}]
    \cup [src : {"IdentifyEvent"}, tag : {"Identified"}, peer_id : {"P1"},
          info : {IdentifyInfo(<<"substrate", "1.0">>, n) : n \in {0, 30, 31}}]
    \cup [src : {"IdentifyEvent"}, tag : {"Error"}, peer_id : {"P1"}]
    \cup [src : {"IdentifyEvent"}, tag : {"SendBack"}, peer_id : {"P1"},
          result : {"Ok", "Err"}]

CustomProtoOuts ==
    { [src |-> "CustomProtoOut", tag |-> "CustomProtocolOpen", version |-> 1,
       peer_id |-> "P1", endpoint |-> "Dialer"],
      [src |-> "CustomProtoOut", tag |-> "CustomProtocolClosed",
       peer_id |-> "P1", endpoint |-> "Dialer", result |-> "Err"],
      [src |-> "CustomProtoOut", tag |-> "CustomMessage", peer_id |-> "P2",
       endpoint |-> "Listener", message |-> "m1"],
      [src |-> "CustomProtoOut", tag |-> "Clogged", peer_id |-> "P2",
       messages |-> <<"m1", "m2">>] }

PingEvents == { [src |-> "PingEvent", tag |-> "PingSuccess", peer |-> "P1",
                 time |-> 5] }

PeerLists == {<<>>, <<"P1">>, <<"P2", "P1">>}

KademliaOuts ==
    [src : {"KademliaOut"}, tag : {"Discovered", "KBucketAdded"},
     peer_id : Peers]
    \cup [src : {"KademliaOut"}, tag : {"FindNodeResult"}, key : {"K"},
          closer_peers : PeerLists]
    \cup [src : {"KademliaOut"}, tag : {"GetProvidersResult"}, key : {"K"},
          provider_peers : {<<"P1">>}]

MdnsLists == {<<>>, << <<"P1", 1>> >>, << <<"P2", 2>>, <<"P1", 1>> >>}

MdnsEvents ==
    [src : {"MdnsEvent"}, tag : {"Discovered", "Expired"}, list : MdnsLists]

-----------------------------------------------------------------------------
(* Specification of event translation: every handler, and Behaviour::poll *)

InitEvents ==
    \E enable_mdns \in BOOLEAN, mdns_ok \in BOOLEAN :
        /\ Behaviour_new(<<>>, enable_mdns, mdns_ok)
        /\ recording = FALSE

InjectCustomProtoOut == \E ev \in CustomProtoOuts : inject_event(ev)

InjectIdentifyEvent == \E ev \in IdentifyEvents : inject_event(ev)

InjectKademliaOut == \E ev \in KademliaOuts : inject_event(ev)

InjectPingEvent == \E ev \in PingEvents : inject_event(ev)

InjectMdnsEvent == mdns /\ \E ev \in MdnsEvents : inject_event(ev)

NextEvents ==
    \/ InjectCustomProtoOut
    \/ InjectIdentifyEvent
    \/ InjectKademliaOut
    \/ InjectPingEvent
    \/ InjectMdnsEvent
    \/ Behaviour_poll

SpecEvents == InitEvents /\ [][NextEvents]_vars

-----------------------------------------------------------------------------
(* Specification of the event queue: pushes and polls, with both histories *)

InitQueue ==
    /\ Behaviour_new(<<>>, FALSE, TRUE)
    /\ recording = TRUE

QueueInputs ==
    CustomProtoOuts \cup PingEvents
    \cup {ev \in IdentifyEvents : ev.peer_id = "P1" /\ ev.tag # "SendBack"}

InjectQueued == \E ev \in QueueInputs : inject_event(ev)

NextQueue == InjectQueued \/ Behaviour_poll

SpecQueue == InitQueue /\ [][NextQueue]_vars

-----------------------------------------------------------------------------
(* DiscoveryBehaviour::poll: the random Kademlia query scheduler *)

MaxTime == 64
LoopFuel == 3

\* the `Duration::from_secs(60)` ceiling
KadDelayCap == 60

\* tokio_timer::Delay::poll at time t
Delay_poll(deadline, t, err) ==
    IF err THEN "Err"
    ELSE IF t >= deadline THEN "Ready"
    ELSE "NotReady"

\* the scheduler fields DiscoveryBehaviour::poll reads and writes
Scheduler ==
    [deadline |-> next_kad_random_query, delay |-> duration_to_next_kad,
     calls |-> find_node_calls, queried_at |-> last_find_node, warns |-> {}]

\* variant: the delay doubles without a ceiling
fire_uncapped(st, t) ==
    [st EXCEPT !.calls = @ + 1,
               !.queried_at = t,
               !.deadline = t + st.delay,
               !.delay = st.delay * 2]

\* variant: the timer is rearmed with the doubled delay
fire_rearm_doubled(st, t) ==
    [st EXCEPT !.calls = @ + 1,
               !.queried_at = t,
               !.deadline = t + Min(st.delay * 2, KadDelayCap),
               !.delay = Min(st.delay * 2, KadDelayCap)]

\* variant: the delay starts over once it would pass the ceiling
fire_restart_at_cap(st, t) ==
    [st EXCEPT !.calls = @ + 1,
               !.queried_at = t,
               !.deadline = t + st.delay,
               !.delay = IF st.delay * 2 > KadDelayCap THEN 1 ELSE st.delay * 2]

\* variant: the timer is rearmed from the deadline that just passed
fire_rearm_from_deadline(st, t) ==
    [st EXCEPT !.calls = @ + 1,
               !.queried_at = t,
               !.deadline = st.deadline + st.delay,
               !.delay = Min(st.delay * 2, KadDelayCap)]

\* variant: the timer is rearmed to the present instant
fire_rearm_now(st, t) ==
    [st EXCEPT !.calls = @ + 1,
               !.queried_at = t,
               !.deadline = t,
               !.delay = Min(st.delay * 2, KadDelayCap)]

\* the Ok(Async::Ready(_)) arm: find_node, reset, double
fire(st, t) ==
    [st EXCEPT !.calls = @ + 1,
               !.queried_at = t,
               !.deadline = t + st.delay,
               !.delay = Min(st.delay * 2, KadDelayCap)]

\* variant: a timer that fired is left alone, no query is started
timer_loop_skips_ready(st, t, err, fuel) ==
    IF Delay_poll(st.deadline, t, err) = "Err"
    THEN [st EXCEPT !.warns = @ \cup {"timer_errored"}]
    ELSE st

\* the `loop { match self.next_kad_random_query.poll() ... }`
RECURSIVE timer_loop(_, _, _, _)
timer_loop(st, t, err, fuel) ==
    IF fuel = 0
    THEN [st EXCEPT !.warns = @ \cup {"loop_not_left"}]
    ELSE CASE Delay_poll(st.deadline, t, err) = "NotReady" -> st
           [] Delay_poll(st.deadline, t, err) = "Ready" ->
                timer_loop(fire(st, t), t, err, fuel - 1)
           [] Delay_poll(st.deadline, t, err) = "Err" ->
                [st EXCEPT !.warns = @ \cup {"timer_errored"}]

\* variant: the timer loop runs before the answer of kademlia is returned
discovery_poll_result_timer_first(st, kad_poll, t, err) ==
    [sched |-> timer_loop(st, t, err, LoopFuel), ret |-> kad_poll]

\* variant: a timer error rearms the timer as a fire would
discovery_poll_result_error_rearms(st, kad_poll, t, err) ==
    IF kad_poll.tag = "Ready"
    THEN [sched |-> st, ret |-> kad_poll]
    ELSE IF err
         THEN [sched |-> [st EXCEPT !.deadline = t + st.delay,
                                    !.warns = @ \cup {"timer_errored"}],
               ret |-> NotReady]
         ELSE [sched |-> timer_loop(st, t, err, LoopFuel), ret |-> NotReady]

\* DiscoveryBehaviour::poll, kad_poll being what self.kademlia.poll returns
discovery_poll_result(st, kad_poll, t, err) ==
    IF kad_poll.tag = "Ready"
    THEN [sched |-> st, ret |-> kad_poll]
    ELSE [sched |-> timer_loop(st, t, err, LoopFuel), ret |-> NotReady]

DiscoveryBehaviour_poll(kad_poll) ==
    LET r == discovery_poll_result(Scheduler, kad_poll, now, timer_error)
    IN  /\ next_kad_random_query' = r.sched.deadline
        /\ duration_to_next_kad' = r.sched.delay
        /\ find_node_calls' = r.sched.calls
        /\ last_find_node' = r.sched.queried_at
        /\ warns' = r.sched.warns
        /\ ret' = r.ret
        /\ op' = Op("discovery_poll", "none", <<kad_poll>>)
        /\ UNCHANGED <<known_addresses, sessions, mdns, user_defined,
                       kad_addrs, discovered_nodes, events, now, timer_error,
                       recording, pushed, returned>>

\* time passes, up to `limit`
AdvanceTime(limit) ==
    /\ now < limit
    /\ now' = now + 1
    /\ op' = Op("tick", "none", <<>>)
    /\ ret' = Unit
    /\ warns' = {}
    /\ UNCHANGED <<known_addresses, last_find_node, sessions, mdns,
                   user_defined, kad_addrs, find_node_calls, discovered_nodes,
                   events, next_kad_random_query, duration_to_next_kad,
                   timer_error, recording, pushed, returned>>

Tick == AdvanceTime(MaxTime)

\* the tokio timer starts or stops reporting an error
TimerToggles ==
    /\ timer_error' = ~timer_error
    /\ op' = Op("timer", "none", <<>>)
    /\ ret' = Unit
    /\ warns' = {}
    /\ UNCHANGED <<known_addresses, last_find_node, sessions, mdns,
                   user_defined, kad_addrs, find_node_calls, discovered_nodes,
                   events, next_kad_random_query, duration_to_next_kad, now,
                   recording, pushed, returned>>

-----------------------------------------------------------------------------
(* Specification of the scheduler, next to the operations that must not   *)
(* touch it                                                               *)

KadPolls ==
    { NotReady,
      Ready(GenerateEvent([src |-> "KademliaOut", tag |-> "KBucketAdded",
                           peer_id |-> "P1"])),
      Ready([tag |-> "DialPeer", peer_id |-> "P2"]) }

InitSched ==
    /\ Behaviour_new(<<>>, FALSE, TRUE)
    /\ recording = FALSE

PollDiscovery == \E k \in KadPolls : DiscoveryBehaviour_poll(k)

AddOneKnownAddress == add_known_address("P1", 1)

InjectKBucketAdded ==
    inject_event([src |-> "KademliaOut", tag |-> "KBucketAdded",
                  peer_id |-> "P1"])

NextSched ==
    \/ PollDiscovery
    \/ Tick
    \/ TimerToggles
    \/ AddOneKnownAddress
    \/ InjectKBucketAdded
    \/ Behaviour_poll

SpecSched == InitSched /\ [][NextSched]_vars

-----------------------------------------------------------------------------
(* Specification of the scheduler alone: polls, the clock and the timer *)

NextTimer ==
    \/ PollDiscovery
    \/ Tick
    \/ TimerToggles

SpecTimer == InitSched /\ [][NextTimer]_vars

-----------------------------------------------------------------------------
(* Specification of the scheduler under fair scheduling: discovery keeps  *)
(* being polled and time keeps passing, up to MaxFairTime                 *)

MaxFairTime == 4

FairTick == AdvanceTime(MaxFairTime)

NextFair ==
    \/ PollDiscovery
    \/ FairTick
    \/ TimerToggles

\* what a poll or a tick can change, `ret` aside (it follows from `op` and
\* the scheduler)
fair_vars ==
    <<now, next_kad_random_query, duration_to_next_kad, find_node_calls,
      last_find_node, warns, op>>

SpecFair ==
    /\ InitSched
    /\ [][NextFair]_vars
    /\ WF_fair_vars(PollDiscovery)
    /\ WF_fair_vars(FairTick)

-----------------------------------------------------------------------------
(* The derived NetworkBehaviour::poll of Behaviour: one poll pass *)

MaxPollQueue == 3
MaxPollTime == 3

NoAction == [tag |-> "None"]

\* the state a pass works on: the handlers' part, the scheduler, and the
\* action (if any) a sub-protocol handed to the swarm
PassState ==
    [h |-> Handled, sched |-> Scheduler, out |-> NoAction]

\* `loop { match field.poll() ... }` for ping, custom_protocols, identify and
\* mdns: `items` is what the successive field.poll() calls return before
\* NotReady
RECURSIVE drain_field(_, _)
drain_field(ps, items) ==
    IF ps.out.tag # "None" \/ items = <<>>
    THEN ps
    ELSE IF Head(items).tag = "GenerateEvent"
         THEN drain_field([ps EXCEPT !.h = process_event(@, Head(items).event)],
                          Tail(items))
         ELSE [ps EXCEPT !.out = Head(items)]

\* the same loop for the discovery field: every call is DiscoveryBehaviour::poll
RECURSIVE drain_discovery(_, _, _, _)
drain_discovery(ps, items, t, err) ==
    IF ps.out.tag # "None"
    THEN ps
    ELSE IF items = <<>>
         THEN [ps EXCEPT !.sched =
                 discovery_poll_result(@, NotReady, t, err).sched]
         ELSE LET r == discovery_poll_result(ps.sched, Ready(Head(items)), t, err)
                  a == r.ret.action
              IN  IF a.tag = "GenerateEvent"
                  THEN drain_discovery(
                          [ps EXCEPT !.sched = r.sched,
                                     !.h = process_event(@, a.event)],
                          Tail(items), t, err)
                  ELSE [ps EXCEPT !.sched = r.sched, !.out = a]

\* variant: identify is declared, and so polled, first
poll_order_identify_first ==
    <<"identify", "ping", "custom_protocols", "discovery", "mdns">>

\* the fields of `struct Behaviour` that are sub-protocols, as declared
poll_order == <<"ping", "custom_protocols", "discovery", "identify", "mdns">>

\* the loop of one field; a disabled Toggle<Mdns> has nothing to poll
drain_named(ps, name, in, mdns_on, t, err) ==
    IF name = "discovery"
    THEN drain_discovery(ps, in.discovery, t, err)
    ELSE IF name = "mdns" /\ ~mdns_on
         THEN ps
         ELSE drain_field(ps, in[name])

\* the loops of the fields, one after the other
RECURSIVE drain_in_order(_, _, _, _, _, _)
drain_in_order(ps, order, in, mdns_on, t, err) ==
    IF order = <<>>
    THEN ps
    ELSE drain_in_order(drain_named(ps, Head(order), in, mdns_on, t, err),
                        Tail(order), in, mdns_on, t, err)

\* the fields in declaration order, then the `poll_method`
poll_pass(ps, in, mdns_on, t, err) ==
    LET p5 == drain_in_order(ps, poll_order, in, mdns_on, t, err)
        r  == Behaviour_poll_result(p5.h.events)
    IN  IF p5.out.tag # "None"
        THEN [ps |-> p5, queued |-> p5.h.events, ret |-> Ready(p5.out)]
        ELSE [ps |-> [p5 EXCEPT !.h.events = r.events],
              queued |-> p5.h.events, ret |-> r.ret]

\* poll_next_event: one call of the derived poll
poll_next_event(in) ==
    LET r == poll_pass(PassState, in, mdns, now, timer_error)
        h == r.ps.h
    IN  /\ Len(r.queued) <= MaxPollQueue
        /\ recording => Len(pushed) + Len(NewEvents(events, r.queued)) <= MaxEvents
        /\ kad_addrs' = h.kad
        /\ discovered_nodes' = h.custom
        /\ events' = h.events
        /\ next_kad_random_query' = r.ps.sched.deadline
        /\ duration_to_next_kad' = r.ps.sched.delay
        /\ find_node_calls' = r.ps.sched.calls
        /\ last_find_node' = r.ps.sched.queried_at
        /\ warns' = h.warns \cup r.ps.sched.warns
        /\ ret' = r.ret
        /\ pushed' = IF recording
                     THEN pushed \o NewEvents(events, r.queued)
                     ELSE pushed
        /\ returned' = IF recording /\ r.ret.tag = "Ready"
                          /\ r.ret.action.tag = "GenerateEvent"
                       THEN Append(returned, r.ret.action.event)
                       ELSE returned
        /\ op' = Op("poll_next_event", "none", <<in>>)
        /\ UNCHANGED <<known_addresses, sessions, mdns, user_defined, now,
                       timer_error, recording>>

-----------------------------------------------------------------------------
(* Specification of the poll pass *)

Quiet ==
    [ping |-> <<>>, custom_protocols |-> <<>>, discovery |-> <<>>,
     identify |-> <<>>, mdns |-> <<>>]

PingOutput ==
    <<GenerateEvent([src |-> "PingEvent", tag |-> "PingSuccess",
                     peer |-> "P1", time |-> 5])>>

CustomOutput ==
    <<GenerateEvent([src |-> "CustomProtoOut", tag |-> "CustomMessage",
                     peer_id |-> "P2", endpoint |-> "Listener",
                     message |-> "m1"])>>

DiscoveryOutput ==
    <<GenerateEvent([src |-> "KademliaOut", tag |-> "KBucketAdded",
                     peer_id |-> "P1"])>>

IdentifyOutput ==
    <<GenerateEvent([src |-> "IdentifyEvent", tag |-> "Identified",
                     peer_id |-> "P1",
                     info |-> IdentifyInfo(<<"substrate", "1.0">>, 0)])>>

MdnsOutput ==
    <<GenerateEvent([src |-> "MdnsEvent", tag |-> "Discovered",
                     list |-> << <<"P2", 2>> >>])>>

PollInputs ==
    { Quiet,
      [Quiet EXCEPT !.ping = PingOutput],
      [Quiet EXCEPT !.custom_protocols = CustomOutput],
      [Quiet EXCEPT !.discovery = DiscoveryOutput],
      [Quiet EXCEPT !.discovery = <<[tag |-> "DialPeer", peer_id |-> "P2"]>>],
      [Quiet EXCEPT !.identify = IdentifyOutput],
      [Quiet EXCEPT !.mdns = MdnsOutput],
      [ping |-> PingOutput, custom_protocols |-> CustomOutput,
       discovery |-> DiscoveryOutput, identify |-> IdentifyOutput,
       mdns |-> MdnsOutput] }

InitPoll ==
    \E enable_mdns \in BOOLEAN :
        /\ Behaviour_new(<< <<"P1", 1>> >>, enable_mdns, TRUE)
        /\ recording = FALSE

PollNextEvent == \E in \in PollInputs : poll_next_event(in)

ShortTick == AdvanceTime(MaxPollTime)

NextPoll == PollNextEvent \/ ShortTick \/ TimerToggles

SpecPoll == InitPoll /\ [][NextPoll]_vars

-----------------------------------------------------------------------------
(* Properties of event translation and of the event queue *)

\* the last operation was inject_event on an event of this type and variant
IsInject(o, src, tag) ==
    /\ o.name = "inject_event"
    /\ o.arg[1].src = src
    /\ o.arg[1].tag = tag

Last(s) == s[Len(s)]

\* the first min(n, 30) elements of a list of n
FirstThirty(s) == SubSeq(s, 1, Min(Len(s), 30))

\* C6: for a peer-identified event reporting n listen addresses, the
\* Identified event appended to the queue carries exactly the first
\* min(n, 30) of them in order, and exactly those are registered with the
\* DHT for that peer.
C6_IdentifiedCapsListenAddrs ==
    [][IsInject(op', "IdentifyEvent", "Identified") =>
        LET ev   == op'.arg[1]
            kept == FirstThirty(ev.info.listen_addrs)
        IN  /\ Len(events') = Len(events) + 1
            /\ SubSeq(events', 1, Len(events)) = events
            /\ Last(events').tag = "Identified"
            /\ Last(events').peer_id = ev.peer_id
            /\ Last(events').info.listen_addrs = kept
            /\ Range(kad_addrs'[ev.peer_id]) =
                 Range(kad_addrs[ev.peer_id]) \cup Range(kept)
            /\ \A q \in Peers \ {ev.peer_id} : kad_addrs'[q] = kad_addrs[q]]_vars

\* C6 witness: 45 addresses were reported; 30 are carried and 30 registered.
C6_Witness ==
    /\ IsInject(op, "IdentifyEvent", "Identified")
    /\ Len(op.arg[1].info.listen_addrs) = 45
    /\ events # <<>>
    /\ Len(Last(events).info.listen_addrs) = 30
    /\ Len(kad_addrs[op.arg[1].peer_id]) = 30

\* C7: a peer-identified event whose protocol identifier is not of this
\* network's family is processed like a matching one: exactly one Identified
\* event for the peer is appended and the peer is registered as discovered;
\* the mismatch only adds the warning.
C7_ForeignProtocolStillProcessed ==
    [][IsInject(op', "IdentifyEvent", "Identified") =>
        LET ev == op'.arg[1]
        IN  /\ events' =
                 Append(events,
                        [tag |-> "Identified", peer_id |-> ev.peer_id,
                         info |-> [ev.info EXCEPT
                                     !.listen_addrs = FirstThirty(@)]])
            /\ discovered_nodes' = discovered_nodes \cup {ev.peer_id}
            /\ ("non_substrate_node" \in warns') <=>
                 ~Contains(ev.info.protocol_version, <<"substrate">>)]_vars

\* C7 witness: P2 identified itself with a foreign protocol identifier.
C7_Witness ==
    /\ IsInject(op, "IdentifyEvent", "Identified")
    /\ op.arg[1].peer_id = "P2"
    /\ op.arg[1].info.protocol_version = <<"ipfs", "0.1.0">>
    /\ "non_substrate_node" \in warns
    /\ events # <<>>
    /\ Last(events).tag = "Identified"
    /\ Last(events).peer_id = "P2"
    /\ "P2" \in discovered_nodes

\* C8: the queue is FIFO with exactly-once delivery: the events returned so
\* far, followed by the events still queued, are the events pushed so far,
\* in order; a poll returns the head unless the queue is empty.
C8_FifoExactlyOnce ==
    /\ pushed = returned \o events
    /\ op.name = "poll" =>
         IF ret.tag = "Ready"
         THEN /\ returned # <<>>
              /\ ret.action = GenerateEvent(Last(returned))
         ELSE events = <<>>

\* C8 witness: two different events were returned by polls while a third
\* waits in the queue.
C8_Witness ==
    /\ op.name = "poll"
    /\ Len(returned) = 2
    /\ returned[1] # returned[2]
    /\ Len(events) = 1
    /\ Len(pushed) = 3

\* the peers an event of the DHT or of mdns surfaces
SurfacedPeers(ev) ==
    CASE ev.src = "KademliaOut" /\ ev.tag \in {"Discovered", "KBucketAdded"} ->
           {ev.peer_id}
      [] ev.src = "KademliaOut" /\ ev.tag = "FindNodeResult" ->
           Range(ev.closer_peers)
      [] ev.src = "MdnsEvent" /\ ev.tag = "Discovered" ->
           {e[1] : e \in Range(ev.list)}
      [] OTHER -> {}

\* C10 (as stated): every peer surfaced by a DHT event (Discovered,
\* KBucketAdded, FindNodeResult) or by an mdns Discovered event is registered
\* as discovered when the translation of the event completes.
C10_EverySurfacedPeerRegistered ==
    [][op'.name = "inject_event" =>
        SurfacedPeers(op'.arg[1]) \subseteq discovered_nodes']_vars

\* C10 (amended): every peer surfaced by a DHT KBucketAdded event or by an
\* mdns Discovered event is registered as discovered when the translation of
\* the event completes; a DHT Discovered event and a FindNodeResult register
\* no peer.
C10_AddedAndMdnsPeersRegistered ==
    [][op'.name = "inject_event" =>
        LET ev == op'.arg[1]
        IN  /\ (IsInject(op', "KademliaOut", "KBucketAdded")
                \/ IsInject(op', "MdnsEvent", "Discovered"))
               => discovered_nodes' = discovered_nodes \cup SurfacedPeers(ev)
            /\ (IsInject(op', "KademliaOut", "Discovered")
                \/ IsInject(op', "KademliaOut", "FindNodeResult"))
               => discovered_nodes' = discovered_nodes]_vars

\* C10 witness: the DHT added P2 to its routing table and P2 is registered.
C10_Witness ==
    /\ IsInject(op, "KademliaOut", "KBucketAdded")
    /\ op.arg[1].peer_id = "P2"
    /\ "P2" \in discovered_nodes

-----------------------------------------------------------------------------
(* Properties of the scheduler *)

\* C3: the random-query delay is 1 second at construction and min(2^N, 60)
\* seconds after N timer fires, each fire issuing one find_node; nothing but
\* a fire changes it.
C3_DelayIsCappedPowerOfTwo ==
    duration_to_next_kad = Min(2 ^ find_node_calls, 60)

\* C3 witness: the seventh fire has happened; the ceiling cut 64 to 60 at the
\* sixth and holds the delay there.
C3_Witness ==
    /\ op.name = "discovery_poll"
    /\ find_node_calls = 7
    /\ duration_to_next_kad = 60

\* C9: a poll_next_event with an empty queue and no sub-protocol output
\* returns NotReady and leaves the queue, the static peer table, the DHT
\* addresses and the registrations unchanged; only the scheduler may move,
\* and only by one timer fire (one find_node, deadline rearmed to now plus
\* the delay, delay doubled up to 60).
C9_QuietPollOnlyMovesScheduler ==
    [][(op'.name = "poll_next_event" /\ op'.arg[1] = Quiet /\ events = <<>>) =>
        /\ ret' = NotReady
        /\ events' = <<>>
        /\ user_defined' = user_defined
        /\ discovered_nodes' = discovered_nodes
        /\ kad_addrs' = kad_addrs
        /\ \/ /\ find_node_calls' = find_node_calls
              /\ next_kad_random_query' = next_kad_random_query
              /\ duration_to_next_kad' = duration_to_next_kad
           \/ /\ find_node_calls' = find_node_calls + 1
              /\ next_kad_random_query' = now + duration_to_next_kad
              /\ duration_to_next_kad' = Min(2 * duration_to_next_kad, 60)]_vars

\* C9 witness: a quiet poll at the instant of the second timer fire, with a
\* peer registered and an entry in the static peer table.
C9_Witness ==
    /\ op.name = "poll_next_event"
    /\ op.arg[1] = Quiet
    /\ ret = NotReady
    /\ events = <<>>
    /\ find_node_calls = 2
    /\ next_kad_random_query = now + 2
    /\ discovered_nodes # {}
    /\ user_defined # <<>>


-----------------------------------------------------------------------------
(* Behaviour::drop_node, and the sessions of custom_protocols *)

\* a session is "closed", "open", or "closing" once its end was asked for

\* CustomProto::disconnect_peer: asks an open session to close; "Has no
\* effect if we're not connected to the `PeerId`"
disconnect_peer(sess, peer_id) ==
    IF sess[peer_id] = "open"
    THEN [sess EXCEPT ![peer_id] = "closing"]
    ELSE sess

\* what drop_node reads and may write
Dropped == [sessions |-> sessions, events |-> events]

\* variant: report the closing in the queue at once
drop_node_result_reports_closed(st, peer_id) ==
    [sessions |-> disconnect_peer(st.sessions, peer_id),
     events |-> Append(st.events,
                       [tag |-> "CustomProtocolClosed", peer_id |-> peer_id,
                        endpoint |-> "Dialer", result |-> "Ok"])]

drop_node_result(st, peer_id) ==
    [st EXCEPT !.sessions = disconnect_peer(@, peer_id)]

drop_node(peer_id) ==
    LET st == drop_node_result(Dropped, peer_id)
    IN  /\ Len(st.events) <= MaxQueue
        /\ sessions' = st.sessions
        /\ events' = st.events
        /\ op' = Op("drop_node", peer_id, <<>>)
        /\ ret' = Unit
        /\ warns' = {}
        /\ UNCHANGED <<known_addresses, last_find_node, mdns, user_defined,
                       kad_addrs, find_node_calls, discovered_nodes,
                       next_kad_random_query, duration_to_next_kad, now,
                       timer_error, recording, pushed, returned>>

\* custom_protocols opens a session and reports it
custom_protocol_opens(peer_id, endpoint) ==
    /\ sessions[peer_id] = "closed"
    /\ sessions' = [sessions EXCEPT ![peer_id] = "open"]
    /\ handle_event([src |-> "CustomProtoOut", tag |-> "CustomProtocolOpen",
                     version |-> 1, peer_id |-> peer_id,
                     endpoint |-> endpoint])

\* custom_protocols reports that a session closed: cleanly when the closing
\* was asked for, with an error when the remote went away
custom_protocol_closes(peer_id, endpoint) ==
    /\ sessions[peer_id] \in {"open", "closing"}
    /\ sessions' = [sessions EXCEPT ![peer_id] = "closed"]
    /\ handle_event([src |-> "CustomProtoOut", tag |-> "CustomProtocolClosed",
                     peer_id |-> peer_id, endpoint |-> endpoint,
                     result |-> IF sessions[peer_id] = "closing"
                                THEN "Ok" ELSE "Err"])

-----------------------------------------------------------------------------
(* Specification of the sessions: drop_node next to the sessions opening  *)
(* and closing, the static table and the scheduler                        *)

Endpoints == {"Dialer", "Listener"}

InitSession ==
    /\ Behaviour_new(<<>>, FALSE, TRUE)
    /\ recording = FALSE

DropNode == \E p \in Peers : drop_node(p)

SessionOpens == \E p \in Peers, e \in Endpoints : custom_protocol_opens(p, e)

SessionCloses == \E p \in Peers, e \in Endpoints : custom_protocol_closes(p, e)

PollDiscoveryNotReady == DiscoveryBehaviour_poll(NotReady)

NextSession ==
    \/ DropNode
    \/ SessionOpens
    \/ SessionCloses
    \/ Behaviour_poll
    \/ AddOneKnownAddress
    \/ PollDiscoveryNotReady
    \/ ShortTick

SpecSession == InitSession /\ [][NextSession]_vars

-----------------------------------------------------------------------------
(* Properties of drop_node *)

\* a session-closed event for `p` is the newest entry of `queue`
ClosedPushed(before, after, p) ==
    /\ Len(after) = Len(before) + 1
    /\ Last(after).tag = "CustomProtocolClosed"
    /\ Last(after).peer_id = p

\* C11: drop_node(p) while no session with p is open returns normally and
\* leaves the event queue, the static table, the scheduler (deadline, delay,
\* queries issued) and every other part of the state as it was, the sessions
\* of custom_protocols included, so nothing can follow from the call; and a
\* session-closed event for p is only ever queued by a step that starts with
\* a session with p.
C11_DropNodeWithoutSessionIsNoOp ==
    [][/\ (op'.name = "drop_node" /\ sessions[op'.peer] = "closed")
            => /\ ret' = Unit
               /\ warns' = {}
               /\ UNCHANGED <<events, user_defined, next_kad_random_query,
                              duration_to_next_kad, find_node_calls, sessions,
                              kad_addrs, discovered_nodes, mdns, pushed,
                              returned, now, timer_error>>
       /\ \A p \in Peers :
            ClosedPushed(events, events', p) => sessions[p] # "closed"]_vars

C11_Witness ==
    /\ op.name = "drop_node"
    /\ sessions[op.peer] = "closed"
    /\ \E q \in Peers : sessions[q] = "closing"
    /\ events # <<>>
    /\ find_node_calls > 0
    /\ user_defined # <<>>


-----------------------------------------------------------------------------
(* Properties of the scheduler: bounds, frame, cadence, termination *)

\* C12: the delay is always between 1 and 60 seconds, and no step of any
\* kind (a poll that returns the answer of kademlia, a poll whose timer is
\* not ready, fires or errors, add_known_address, inject_event,
\* Behaviour::poll, the passing of time) lowers it.
C12_DelayBoundedAndNeverLowered ==
    /\ [](1 <= duration_to_next_kad /\ duration_to_next_kad <= 60)
    /\ [][duration_to_next_kad' >= duration_to_next_kad]_vars

C12_Witness ==
    /\ duration_to_next_kad = 60
    /\ op.name = "discovery_poll"
    /\ "timer_errored" \in warns
    /\ discovered_nodes # {}
    /\ user_defined # <<>>

\* C13: a poll in which kademlia has a ready action returns that action and
\* leaves the scheduler alone: the deadline, the delay and the number of
\* find_node calls are unchanged and the timer is not polled (its error is
\* not logged even while it reports one).
C13_ReadyKademliaSkipsScheduler ==
    [][(op'.name = "discovery_poll" /\ op'.arg[1].tag = "Ready")
          => /\ ret' = op'.arg[1]
             /\ warns' = {}
             /\ UNCHANGED <<next_kad_random_query, duration_to_next_kad,
                            find_node_calls, last_find_node>>]_vars

C13_Witness ==
    /\ op.name = "discovery_poll"
    /\ op.arg[1].tag = "Ready"
    /\ ret = op.arg[1]
    /\ timer_error
    /\ now >= next_kad_random_query
    /\ find_node_calls > 0

\* a step that issues a random find_node query
Fires == find_node_calls' # find_node_calls

\* C14: a step issues at most one find_node; a step that issues one is a
\* poll that finds the deadline passed, rearms the timer to now plus the
\* delay held before the doubling, and doubles the delay up to 60; until
\* the first query the deadline is the construction time, and the first
\* poll that reaches the timer without error issues it; query k + 1 comes
\* at least min(2^(k-1), 60) seconds after query k.
C14_FireRearmsThenDoubles ==
    [][/\ find_node_calls' \in {find_node_calls, find_node_calls + 1}
       /\ Fires =>
            /\ op'.name = "discovery_poll"
            /\ now >= next_kad_random_query
            /\ last_find_node' = now
            /\ next_kad_random_query' = now + duration_to_next_kad
            /\ duration_to_next_kad' = Min(duration_to_next_kad * 2, 60)
            /\ find_node_calls >= 1 =>
                 now - last_find_node >= Min(2 ^ (find_node_calls - 1), 60)
       /\ find_node_calls = 0 =>
            /\ next_kad_random_query = 0
            /\ (/\ op'.name = "discovery_poll"
                /\ op'.arg[1] = NotReady
                /\ ~timer_error) => find_node_calls' = 1]_vars

C14_Witness ==
    /\ op.name = "discovery_poll"
    /\ find_node_calls = 4
    /\ last_find_node = now
    /\ now > 7
    /\ next_kad_random_query = now + 8
    /\ duration_to_next_kad = 16

\* C20: DiscoveryBehaviour::poll leaves its loop: the loop is never still
\* running after LoopFuel rounds, a poll issues at most one query, a poll
\* that issues one leaves the deadline at least a second ahead, and a poll
\* that meets a timer error issues none.
C20_PollLeavesTimerLoop ==
    /\ []("loop_not_left" \notin warns)
    /\ [][op'.name = "discovery_poll" =>
            /\ find_node_calls' <= find_node_calls + 1
            /\ Fires => next_kad_random_query' >= now + 1
            /\ "timer_errored" \in warns' => ~Fires]_vars

C20_Witness ==
    /\ op.name = "discovery_poll"
    /\ last_find_node = now
    /\ find_node_calls = 2
    /\ now > 1
    /\ next_kad_random_query > now
    /\ warns = {}


-----------------------------------------------------------------------------
(* Properties of the scheduler: timer errors and progress *)

\* the last operation was a poll that reached the timer
ReachedTimer(o) == o.name = "discovery_poll" /\ o.arg[1] = NotReady

DeadlinePassed == now >= next_kad_random_query

\* C15: a poll that meets a timer error returns NotReady, logs the error,
\* issues no query and leaves the deadline and the delay as they were; and
\* whatever errors came before, a poll that reaches the timer while it
\* reports no error and the deadline has passed issues a query.
C15_TimerErrorSkipsCycleAndHeals ==
    [][ReachedTimer(op') =>
         /\ timer_error =>
              /\ ret' = NotReady
              /\ warns' = {"timer_errored"}
              /\ UNCHANGED <<next_kad_random_query, duration_to_next_kad,
                             find_node_calls, last_find_node>>
         /\ (~timer_error /\ DeadlinePassed) =>
              /\ ret' = NotReady
              /\ warns' = {}
              /\ Fires]_vars

C15_Witness ==
    /\ ReachedTimer(op)
    /\ "timer_errored" \in warns
    /\ ret = NotReady
    /\ DeadlinePassed
    /\ find_node_calls = 3
    /\ duration_to_next_kad = 8

\* C16 as claimed: whenever discovery keeps being polled and time keeps
\* passing, each passed deadline is eventually followed by a query (which
\* moves the deadline ahead of now), whatever kademlia answers.
C16_PassedDeadlineAlwaysFollowedByQuery ==
    DeadlinePassed ~> ~DeadlinePassed

\* the last operation was a poll that reached the timer and met no error
ReachedTimerWithoutError == ReachedTimer(op) /\ "timer_errored" \notin warns

\* C16: in every execution in which, again and again, a poll finds kademlia
\* not ready and the timer free of error, each passed deadline is eventually
\* followed by a query.
C16_PassedDeadlineFollowedByQueryIfTimerReached ==
    ([]<>ReachedTimerWithoutError) => (DeadlinePassed ~> ~DeadlinePassed)

C16_Witness ==
    /\ ReachedTimerWithoutError
    /\ find_node_calls = 3
    /\ last_find_node = now
    /\ now = MaxFairTime
    /\ ~DeadlinePassed


-----------------------------------------------------------------------------
(* Properties of event translation: silent events and pass-through *)

\* the events the handlers take in without reporting anything
Silent(ev) ==
    \/ ev.src = "KademliaOut"
    \/ ev.src = "IdentifyEvent" /\ ev.tag = "SendBack"
    \/ ev.src = "MdnsEvent"

\* the peers a silent event registers with custom_protocols
Registered(ev) ==
    IF ev.src = "KademliaOut" /\ ev.tag = "KBucketAdded"
    THEN {ev.peer_id}
    ELSE IF ev.src = "MdnsEvent" /\ ev.tag = "Discovered"
         THEN {ev.list[i][1] : i \in 1..Len(ev.list)}
         ELSE {}

\* C18: inject_event of KBucketAdded, FindNodeResult (empty or not),
\* Discovered, GetProvidersResult, identify SendBack (Ok or Err), mdns
\* Discovered and mdns Expired leaves the event queue as it was; KBucketAdded
\* and mdns Discovered add their peers to the discovered nodes of
\* custom_protocols, and nothing else changes for any of them.
C18_SilentEventsLeaveQueueAlone ==
    [][(op'.name = "inject_event" /\ Silent(op'.arg[1])) =>
         /\ events' = events
         /\ discovered_nodes' = discovered_nodes \cup Registered(op'.arg[1])
         /\ UNCHANGED <<kad_addrs, user_defined, sessions, mdns,
                        next_kad_random_query, duration_to_next_kad,
                        find_node_calls, last_find_node>>]_vars

C18_Witness ==
    /\ IsInject(op, "KademliaOut", "FindNodeResult")
    /\ op.arg[1].closer_peers = <<"P2", "P1">>
    /\ events # <<>>
    /\ discovered_nodes = {"P2"}
    /\ kad_addrs["P2"] # <<>>

\* `out` is the BehaviourOut of the same variant as `ev` with every field
\* equal
PassedThrough(ev, out) ==
    IF ev.src = "PingEvent"
    THEN /\ DOMAIN out = {"tag", "peer_id", "ping_time"}
         /\ out.tag = "PingSuccess"
         /\ out.peer_id = ev.peer
         /\ out.ping_time = ev.time
    ELSE /\ DOMAIN out = DOMAIN ev \ {"src"}
         /\ \A f \in DOMAIN out : out[f] = ev[f]

\* C19: inject_event of a CustomProtoOut (CustomProtocolOpen,
\* CustomProtocolClosed, CustomMessage, Clogged) or of PingSuccess appends
\* exactly one event at the tail of the queue, of the same variant with
\* every field equal (ping: peer and time), and changes nothing else.
C19_PassThroughAppendsOneEqualEvent ==
    [][(/\ op'.name = "inject_event"
        /\ op'.arg[1].src \in {"CustomProtoOut", "PingEvent"}) =>
         /\ Len(events') = Len(events) + 1
         /\ SubSeq(events', 1, Len(events)) = events
         /\ PassedThrough(op'.arg[1], Last(events'))
         /\ UNCHANGED <<kad_addrs, discovered_nodes, user_defined, sessions,
                        mdns, next_kad_random_query, duration_to_next_kad,
                        find_node_calls, last_find_node>>]_vars

C19_Witness ==
    /\ IsInject(op, "CustomProtoOut", "CustomProtocolClosed")
    /\ Len(events) = 3
    /\ events[1].tag = "Identified"
    /\ events[2].tag = "Clogged"
    /\ Last(events).result = "Err"
    /\ discovered_nodes # {}


-----------------------------------------------------------------------------
(* Properties of the poll pass: order *)

\* the BehaviourOut events the outputs `items` of one sub-protocol give
\* rise to, in order
RECURSIVE Translated(_)
Translated(items) ==
    IF items = <<>>
    THEN <<>>
    ELSE process_event([Handled EXCEPT !.events = <<>>],
                       Head(items).event).events
         \o Translated(Tail(items))

\* every output of the sub-protocols in `in` is an event
OnlyEvents(in) ==
    \A f \in DOMAIN in :
        \A i \in 1..Len(in[f]) : in[f][i].tag = "GenerateEvent"

\* what the pass handed out of the queue
Delivered(r) ==
    IF r.tag = "Ready" /\ r.action.tag = "GenerateEvent"
    THEN <<r.action.event>>
    ELSE <<>>

\* C17: a pass in which the sub-protocols only produce events queues the
\* events of ping, then those of custom_protocols, of discovery, of identify
\* and (when enabled) of mdns, behind everything queued by earlier passes;
\* the queue before the pass followed by these events is what the pass
\* hands out followed by the queue after it.
C17_PassQueuesInDeclarationOrder ==
    [][(op'.name = "poll_next_event" /\ OnlyEvents(op'.arg[1])) =>
         LET in == op'.arg[1]
         IN  events \o Translated(in.ping) \o Translated(in.custom_protocols)
                    \o Translated(in.discovery) \o Translated(in.identify)
                    \o (IF mdns THEN Translated(in.mdns) ELSE <<>>)
               = Delivered(ret') \o events']_vars

C17_Witness ==
    /\ op.name = "poll_next_event"
    /\ op.arg[1].ping # <<>>
    /\ op.arg[1].identify # <<>>
    /\ Len(events) = 2
    /\ events[1].tag = "CustomMessage"
    /\ events[2].tag = "Identified"
    /\ Delivered(ret) # <<>>
    /\ Delivered(ret)[1].tag = "PingSuccess"
    /\ mdns

=============================================================================
